---- MODULE Spec2Model ----
(***************************************************************************)
(* The three gate scoring scripts of src/ml (score_decision_gravity.py,    *)
(* score_question_depth.py, score_consequence_depth.py): init() loads the  *)
(* classifier into the global `model`, run(raw_data) scores one request.   *)
(*                                                                         *)
(* Numbers are fixed point.  A probability is an integer number of units   *)
(* of 1/(Milli*Sub); a weighted, jittered dimension value is an integer    *)
(* number of units of 1/(100*Milli*Sub); everything that went through      *)
(* round(x, 3) is an integer number of thousandths.  Texts are sequences   *)
(* of one-character strings.                                               *)
(***************************************************************************)
EXTENDS Integers, Sequences, FiniteSets, TLC

VARIABLES gate, model, init_error, request, response, run_raised,
          predicted, staged, previous, deploy

vars == <<gate, model, init_error, request, response, run_raised,
          predicted, staged, previous, deploy>>

----------------------------------------------------------------------------
(* Bounds of the model *)

\* probabilities are resolved to 1/Sub of a thousandth
Sub == 10
\* probabilities explored: within PSpread units of 0, of each threshold and of 1
PSpread == 12
\* jitters explored: within JSpread units of -0.05, of 0 and of +0.05
JSpread == 1
\* texts explored: at most MaxTokens tokens of Vocabulary, separated by a space
MaxTokens == 6
\* versions the registry hands out: 1..MaxVersion
MaxVersion == 2

----------------------------------------------------------------------------
(* Numbers *)

\* round(x, 3): results are thousandths
Milli == 1000
\* np.random.uniform(-0.05, 0.05): the half width, in thousandths
JitterMilli == 50

PMax == Milli * Sub
JMax == JitterMilli * Sub

Max(a, b) == IF a >= b THEN a ELSE b

\* Python's round(): v units of 1/(Milli*d) to the nearest thousandth, an
\* exact tie going to the even neighbour.
Round3(v, d) ==
    LET q == v \div d
        r == v % d
    IN  IF 2 * r < d THEN q
        ELSE IF 2 * r > d THEN q + 1
        ELSE IF q % 2 = 0 THEN q ELSE q + 1

----------------------------------------------------------------------------
(* Gates *)

Gates == {"decision_gravity", "question_depth", "consequence_depth"}

PassLabel(g) == IF g = "consequence_depth" THEN "APPROVE" ELSE "PROCEED"

FailLabel(g) ==
    CASE g = "decision_gravity"  -> "REFUSE"
      [] g = "question_depth"    -> "REJECT"
      [] g = "consequence_depth" -> "TERMINATE"

ScoreField(g) ==
    CASE g = "decision_gravity"  -> "gravity_score"
      [] g = "question_depth"    -> "depth_score"
      [] g = "consequence_depth" -> "consequence_depth_score"

\* the decision threshold, in thousandths
ThresholdMilli(g) == IF g = "question_depth" THEN 600 ELSE 500

\* the three dimensions in the order the code draws their jitter: name and
\* weight in hundredths
Dimensions(g) ==
    CASE g = "decision_gravity" ->
           << <<"irreversibility", 95>>, <<"life_impact", 98>>,
              <<"temporal_consequence", 92>> >>
      [] g = "question_depth" ->
           << <<"specificity", 95>>, <<"introspective_depth", 98>>,
              <<"non_leading", 92>> >>
      [] g = "consequence_depth" ->
           << <<"emotional_specificity", 95>>, <<"concrete_reasoning", 92>>,
              <<"narrative_depth", 98>> >>

DimNames(g) == {Dimensions(g)[i][1] : i \in 1..3}

----------------------------------------------------------------------------
(* Texts *)

UpperToLower ==
    {<<"A", "a">>, <<"B", "b">>, <<"C", "c">>, <<"D", "d">>, <<"E", "e">>,
     <<"F", "f">>, <<"G", "g">>, <<"H", "h">>, <<"I", "i">>, <<"J", "j">>,
     <<"K", "k">>, <<"L", "l">>, <<"M", "m">>, <<"N", "n">>, <<"O", "o">>,
     <<"P", "p">>, <<"Q", "q">>, <<"R", "r">>, <<"S", "s">>, <<"T", "t">>,
     <<"U", "u">>, <<"V", "v">>, <<"W", "w">>, <<"X", "x">>, <<"Y", "y">>,
     <<"Z", "z">>}

LowerChar(c) ==
    IF \E m \in UpperToLower : m[1] = c
    THEN (CHOOSE m \in UpperToLower : m[1] = c)[2]
    ELSE c

\* str.lower()
Lower(text) == [i \in 1..Len(text) |-> LowerChar(text[i])]

\* `pat in text`
Contains(text, pat) ==
    \E i \in 1..(Len(text) - Len(pat) + 1) :
        SubSeq(text, i, i + Len(pat) - 1) = pat

\* any(p in text for p in markers)
ContainsAny(text, markers) == \E pat \in markers : Contains(text, pat)

Whitespace == {" ", "\t", "\n"}

\* len(text.split()): the number of maximal runs of non-whitespace characters
WordCount(text) ==
    Cardinality({i \in 1..Len(text) :
        /\ text[i] \notin Whitespace
        /\ (i = 1 \/ text[i - 1] \in Whitespace)})

AdviceMarkers ==
    { <<"s", "h", "o", "u", "l", "d", " ", "i">>,
      <<"w", "h", "a", "t", " ", "s", "h", "o", "u", "l", "d">>,
      <<"r", "e", "c", "o", "m", "m", "e", "n", "d">>,
      <<"a", "d", "v", "i", "s", "e">> }

PredictiveMarkers ==
    { <<"w", "i", "l", "l", " ", "i">>,
      <<"w", "i", "l", "l", " ", "i", "t">>,
      <<"w", "h", "a", "t", " ", "w", "i", "l", "l">>,
      <<"g", "o", "i", "n", "g", " ", "t", "o">> }

LeadingMarkers ==
    { <<"w", "o", "n", "'", "t">>,
      <<"i", "s", "n", "'", "t", " ", "i", "t">>,
      <<"d", "o", "n", "'", "t", " ", "y", "o", "u", " ", "t", "h", "i", "n", "k">>,
      <<"r", "i", "g", "h", "t", "?">> }

ComparisonMarkers ==
    { <<"w", "h", "a", "t", " ", "i", "f", " ", "i", " ", "h", "a", "d">>,
      <<"o", "t", "h", "e", "r", " ", "o", "p", "t", "i", "o", "n">>,
      <<"a", "l", "t", "e", "r", "n", "a", "t", "i", "v", "e">> }

\* the short-question rule: fewer words than this is "binary"
ShortWords == 6

\* detect_rejection_type with the leading rule moved in front of the others
detect_rejection_type_leading_first(text) ==
    LET text_lower == Lower(text)
    IN  IF ContainsAny(text_lower, LeadingMarkers) THEN "leading"
        ELSE IF ContainsAny(text_lower, AdviceMarkers) THEN "advice_seeking"
        ELSE IF ContainsAny(text_lower, PredictiveMarkers) THEN "predictive"
        ELSE IF ContainsAny(text_lower, ComparisonMarkers) THEN "comparison"
        ELSE IF WordCount(text) < ShortWords THEN "binary"
        ELSE "generic"

\* detect_rejection_type with <= in the short-question rule
detect_rejection_type_short_inclusive(text) ==
    LET text_lower == Lower(text)
    IN  IF ContainsAny(text_lower, AdviceMarkers) THEN "advice_seeking"
        ELSE IF ContainsAny(text_lower, PredictiveMarkers) THEN "predictive"
        ELSE IF ContainsAny(text_lower, LeadingMarkers) THEN "leading"
        ELSE IF ContainsAny(text_lower, ComparisonMarkers) THEN "comparison"
        ELSE IF WordCount(text) <= ShortWords THEN "binary"
        ELSE "generic"

detect_rejection_type(text) ==
    LET text_lower == Lower(text)
    IN  IF ContainsAny(text_lower, AdviceMarkers) THEN "advice_seeking"
        ELSE IF ContainsAny(text_lower, PredictiveMarkers) THEN "predictive"
        ELSE IF ContainsAny(text_lower, LeadingMarkers) THEN "leading"
        ELSE IF ContainsAny(text_lower, ComparisonMarkers) THEN "comparison"
        ELSE IF WordCount(text) < ShortWords THEN "binary"
        ELSE "generic"

REJECTION_GUIDANCE ==
    [generic |->
       "This question is too vague. Ask about specific aspects of your future experience.",
     advice_seeking |->
       "This question seeks advice. Ask about your future self's internal experience instead.",
     predictive |->
       "This question asks for predictions. Ask about one possible future experience.",
     leading |->
       "This question seeks validation. Ask open questions about your future self's experience.",
     binary |->
       "This question is too simple. Explore specific dimensions of your future experience.",
     comparison |->
       "This system explores ONE future. Ask about this path specifically."]

\* GuidanceFor looking the type up under a key the table does not have, so
\* that the default is always taken
GuidanceForDefaultOnly(rejection_type) == REJECTION_GUIDANCE["generic"]

\* REJECTION_GUIDANCE.get(rejection_type, REJECTION_GUIDANCE["generic"])
GuidanceFor(rejection_type) ==
    IF rejection_type \in DOMAIN REJECTION_GUIDANCE
    THEN REJECTION_GUIDANCE[rejection_type]
    ELSE REJECTION_GUIDANCE["generic"]

----------------------------------------------------------------------------
(* Requests and the classifier *)

\* Python's None, and JSON's null
None == "None"

\* raw_data as json.loads sees it.  ttype is the type of the value under the
\* key "text": a string (chars), some other falsy value (null, 0, false, [],
\* {}) or some other truthy value (a number, true, a non-empty container).
RawMalformed == [kind |-> "malformed", has_text |-> FALSE, ttype |-> "str", chars |-> <<>>]
RawNonObject == [kind |-> "non_object", has_text |-> FALSE, ttype |-> "str", chars |-> <<>>]
RawObject(has_text, ttype, chars) ==
    [kind |-> "object", has_text |-> has_text, ttype |-> ttype, chars |-> chars]

\* data.get('text', '')
DataGet(data) ==
    IF data.has_text THEN [ttype |-> data.ttype, chars |-> data.chars]
    ELSE [ttype |-> "str", chars |-> <<>>]

\* `not text`
Falsy(text) ==
    \/ text.ttype = "str" /\ text.chars = <<>>
    \/ text.ttype = "other_falsy"

\* what model.predict_proba([text]) does: it raises, or it returns the
\* probabilities [1 - p, p] of the two classes
Throws == [throws |-> TRUE, p |-> 0]
Proba(p) == [throws |-> FALSE, p |-> p]

\* the pipeline's TfidfVectorizer lower-cases its input: a text that is not a
\* string makes predict_proba raise
PredictProba(text, outcome) ==
    IF text.ttype # "str" THEN Throws ELSE outcome

----------------------------------------------------------------------------
(* run *)

\* how the try block ends: it returns resp or raises exc; proba is <<>> when
\* predict_proba was not called and <<its outcome>> when it was
Returned(resp, proba) ==
    [raised |-> FALSE, exc |-> None, resp |-> resp, proba |-> proba]
Raised(exc, proba) ==
    [raised |-> TRUE, exc |-> exc, resp |-> [gate_decision |-> None], proba |-> proba]

\* NoTextResponse with the question-depth guidance given by every gate
NoTextResponseGuidanceAll(g) ==
    [error |-> "No text provided", gate_decision |-> FailLabel(g),
     guidance |-> "Please provide a question."]

\* the response to a request without text
NoTextResponse(g) ==
    IF g = "question_depth"
    THEN [error |-> "No text provided", gate_decision |-> FailLabel(g),
          guidance |-> "Please provide a question."]
    ELSE [error |-> "No text provided", gate_decision |-> FailLabel(g)]

\* ErrorResponse with a zero score and confidence filled in
ErrorResponseZeroScore(g, exc) ==
    (ScoreField(g) :> 0)
    @@ [error |-> exc, gate_decision |-> FailLabel(g), confidence |-> 0]

\* the except clause's response
ErrorResponse(g, exc) == [error |-> exc, gate_decision |-> FailLabel(g)]

\* Decide with the 0.5 of the other two scripts for every gate
DecideSameThreshold(g, p) ==
    IF p >= 500 * Sub THEN PassLabel(g) ELSE FailLabel(g)

\* Decide with > in place of >=
DecideStrict(g, p) ==
    IF p > ThresholdMilli(g) * Sub THEN PassLabel(g) ELSE FailLabel(g)

\* gate_decision = pass if score >= threshold else fail
Decide(g, p) ==
    IF p >= ThresholdMilli(g) * Sub THEN PassLabel(g) ELSE FailLabel(g)

\* DimensionValue with the jitter drawn from (-0.1, 0.1)
DimensionValueWideJitter(p, weight, jitter) ==
    Round3(p * weight + 200 * jitter, 100 * Sub)

\* round(score * weight + np.random.uniform(-0.05, 0.05), 3)
DimensionValue(p, weight, jitter) == Round3(p * weight + 100 * jitter, 100 * Sub)

DimensionsOf(g, p, jit) ==
    [name \in DimNames(g) |->
        LET i == CHOOSE k \in 1..3 : Dimensions(g)[k][1] = name
        IN  DimensionValue(p, Dimensions(g)[i][2], jit[i])]

\* Confidence taken from proba[1] in place of max(proba)
ConfidencePositiveClass(p) == Round3(p, Sub)

\* round(float(max(proba)), 3)
Confidence(p) == Round3(Max(PMax - p, p), Sub)

\* RejectionInfo without the test of the decision
RejectionInfoAlways(g, gate_decision, chars) ==
    LET rejection_type == detect_rejection_type(chars)
    IN  [rejection_type |-> rejection_type,
         guidance |-> GuidanceFor(rejection_type)]

\* rejection_type and guidance of the question-depth gate
RejectionInfo(g, gate_decision, chars) ==
    IF gate_decision = "REJECT"
    THEN LET rejection_type == detect_rejection_type(chars)
         IN  [rejection_type |-> rejection_type,
              guidance |-> GuidanceFor(rejection_type)]
    ELSE [rejection_type |-> None, guidance |-> None]

\* ScoredResponse with the jitter of the first dimension also added to the
\* primary score
ScoredResponseJitteredScore(g, chars, p, jit) ==
    LET gate_decision == Decide(g, p)
        common == (ScoreField(g) :> DimensionValue(p, 100, jit[1]))
                  @@ [dimensions |-> DimensionsOf(g, p, jit),
                      gate_decision |-> gate_decision,
                      confidence |-> Confidence(p)]
    IN  IF g = "question_depth"
        THEN common @@ RejectionInfo(g, gate_decision, chars)
        ELSE common

\* the result dictionary
ScoredResponse(g, chars, p, jit) ==
    LET gate_decision == Decide(g, p)
        common == (ScoreField(g) :> Round3(p, Sub))
                  @@ [dimensions |-> DimensionsOf(g, p, jit),
                      gate_decision |-> gate_decision,
                      confidence |-> Confidence(p)]
    IN  IF g = "question_depth"
        THEN common @@ RejectionInfo(g, gate_decision, chars)
        ELSE common

\* RunBody loading the classifier on the first request instead of in init()
RunBodyLazyLoad(g, mdl, raw, outcome, jit) ==
    IF raw.kind = "malformed" THEN Raised("JSONDecodeError", <<>>)
    ELSE IF raw.kind = "non_object" THEN Raised("AttributeError: get", <<>>)
    ELSE LET text == DataGet(raw)
         IN  IF Falsy(text) THEN Returned(NoTextResponse(g), <<>>)
             ELSE IF mdl = "unset" THEN Raised("ArtifactLoadError", <<>>)
             ELSE LET proba == PredictProba(text, outcome)
                  IN  IF proba.throws THEN Raised("predict_proba failed", <<proba>>)
                      ELSE Returned(ScoredResponse(g, text.chars, proba.p, jit),
                                    <<proba>>)

\* the body of the try block
RunBody(g, mdl, raw, outcome, jit) ==
    IF raw.kind = "malformed" THEN Raised("JSONDecodeError", <<>>)
    ELSE IF raw.kind = "non_object" THEN Raised("AttributeError: get", <<>>)
    ELSE LET text == DataGet(raw)
         IN  IF Falsy(text) THEN Returned(NoTextResponse(g), <<>>)
             ELSE IF mdl = "unset"
                  THEN Raised("NameError: name 'model' is not defined", <<>>)
             ELSE LET proba == PredictProba(text, outcome)
                  IN  IF proba.throws THEN Raised("predict_proba failed", <<proba>>)
                      ELSE Returned(ScoredResponse(g, text.chars, proba.p, jit),
                                    <<proba>>)

\* RunResult with `except ValueError` in place of `except Exception`: only a
\* JSON decoding error is turned into a response
RunResultNarrowExcept(g, mdl, raw, outcome, jit) ==
    LET body == RunBody(g, mdl, raw, outcome, jit)
    IN  IF body.raised /\ body.exc = "JSONDecodeError"
        THEN Returned(ErrorResponse(g, body.exc), body.proba)
        ELSE body

\* try: ... except Exception as e: the error response
RunResult(g, mdl, raw, outcome, jit) ==
    LET body == RunBody(g, mdl, raw, outcome, jit)
    IN  IF body.raised
        THEN Returned(ErrorResponse(g, body.exc), body.proba)
        ELSE body

\* run dropping the global model when the classifier raised
run_drops_model(raw, outcome, jit) ==
    LET result == RunResult(gate, model, raw, outcome, jit)
    IN  /\ request' = raw
        /\ response' = result.resp
        /\ run_raised' = result.raised
        /\ predicted' = result.proba
        /\ model' = IF result.proba # <<>> /\ result.proba[1].throws
                    THEN "unset" ELSE model
        /\ UNCHANGED <<gate, init_error, deploy>>

run(raw, outcome, jit) ==
    LET result == RunResult(gate, model, raw, outcome, jit)
    IN  /\ request' = raw
        /\ response' = result.resp
        /\ run_raised' = result.raised
        /\ predicted' = result.proba
        /\ UNCHANGED <<gate, model, init_error, deploy>>

\* init(): joblib.load raises when the artifact is missing or unreadable and
\* the global is then left as it was
init(artifact_ok) ==
    /\ IF artifact_ok
       THEN model' = "loaded" /\ init_error' = None
       ELSE model' = model /\ init_error' = "ArtifactLoadError"
    /\ UNCHANGED <<gate, request, response, run_raised, predicted, staged,
                   previous, deploy>>

----------------------------------------------------------------------------
(* Inputs *)

TokShouldI == <<"S", "h", "o", "u", "l", "d", " ", "I">>
TokWillI == <<"W", "i", "l", "l", " ", "I">>
TokRight == <<"r", "i", "g", "h", "t", "?">>
TokAlternative == <<"a", "l", "t", "e", "r", "n", "a", "t", "i", "v", "e">>
TokOk == <<"o", "k">>
TokBlank == <<" ">>

Vocabulary == {TokShouldI, TokWillI, TokRight, TokAlternative, TokOk, TokBlank}

RECURSIVE Join(_)
Join(tokens) ==
    IF Len(tokens) = 0 THEN <<>>
    ELSE IF Len(tokens) = 1 THEN tokens[1]
    ELSE tokens[1] \o <<" ">> \o Join(Tail(tokens))

\* "Should I do this right?", "Will I be happy?", "ok"
ExampleTexts ==
    { <<"S", "h", "o", "u", "l", "d", " ", "I", " ", "d", "o", " ", "t", "h", "i", "s",
        " ", "r", "i", "g", "h", "t", "?">>,
      <<"W", "i", "l", "l", " ", "I", " ", "b", "e", " ", "h", "a", "p", "p", "y", "?">>,
      <<"o", "k">> }

Texts ==
    ExampleTexts \cup
    {Join(ts) : ts \in UNION {[1..n -> Vocabulary] : n \in 1..MaxTokens}}

\* the texts of the requests the serving process receives: one for each
\* rejection type
RunTexts ==
    ExampleTexts \cup
    {Join(<<TokRight>>), Join(<<TokAlternative>>),
     Join(<<TokOk, TokOk, TokOk, TokOk, TokOk, TokOk>>)}

RunRaw ==
    {RawMalformed, RawNonObject,
     RawObject(FALSE, "str", <<>>), RawObject(TRUE, "str", <<>>),
     RawObject(TRUE, "other_falsy", <<>>), RawObject(TRUE, "other_truthy", <<>>)}
    \cup {RawObject(TRUE, "str", t) : t \in RunTexts}

\* 0, 1, and around each threshold: just below, at, just above, and a value
\* below that rounds up to the threshold
RunP ==
    {0, PMax} \cup
    {ThresholdMilli(g) * Sub + d : g \in Gates, d \in {1 - (Sub \div 2), -1, 0, 1}}

RunOutcomes == {Throws} \cup {Proba(p) : p \in RunP}

\* np.random.uniform(-0.05, 0.05) draws from [-0.05, 0.05)
RunJ == {-JMax, JMax - 1}

Near(x, a, spread) == x - a <= spread /\ a - x <= spread

PAll ==
    {p \in 0..PMax :
        \E a \in {0, PMax} \cup {ThresholdMilli(g) * Sub : g \in Gates} :
            Near(p, a, PSpread)}

JAll == {j \in (-JMax)..(JMax - 1) : \E a \in {-JMax, 0, JMax} : Near(j, a, JSpread)}

\* one request, with what the classifier and the three jitter draws will be
ScoreInputs ==
    [raw : {RawObject(TRUE, "str", TokOk)},
     outcome : {Proba(p) : p \in PAll},
     jit : JAll \X JAll \X JAll]

TextInputs ==
    [raw : {RawObject(TRUE, "str", t) : t \in Texts},
     outcome : {Proba(600 * Sub - 1), Proba(600 * Sub)},
     jit : {<<0, 0, 0>>}]

\* a request and then the same request again, the classifier answering both
\* alike (a fitted pipeline is deterministic), each with its own jitter draws
RepeatInputs ==
    {<<[raw |-> raw, outcome |-> outcome, jit |-> jit1],
       [raw |-> raw, outcome |-> outcome, jit |-> jit2]>> :
        raw \in RunRaw, outcome \in RunOutcomes,
        jit1 \in RunJ \X RunJ \X RunJ, jit2 \in RunJ \X RunJ \X RunJ}

----------------------------------------------------------------------------
(* deploy_models.py: the state of a deployment that has not started *)

DeployIdle ==
    [pc |-> "idle", exists |-> {}, next |-> 1, env |-> <<>>,
     registered_models |-> <<>>, calls |-> <<>>, visited |-> <<>>,
     config |-> <<>>]

----------------------------------------------------------------------------
(* The serving process: init() and run() in any order, any request *)

Init ==
    /\ gate \in Gates
    /\ model = "unset"
    /\ init_error = None
    /\ request = RawMalformed
    /\ response = [gate_decision |-> None]
    /\ run_raised = FALSE
    /\ predicted = <<>>
    /\ staged = <<>>
    /\ previous = <<>>
    /\ deploy = DeployIdle

Startup == \E artifact_ok \in BOOLEAN : init(artifact_ok)

Serve ==
    \E raw \in RunRaw, outcome \in RunOutcomes, jit \in RunJ \X RunJ \X RunJ :
        /\ run(raw, outcome, jit)
        /\ UNCHANGED <<staged, previous>>

Next == Startup \/ Serve

Spec == Init /\ [][Next]_vars

----------------------------------------------------------------------------
(* One call of run() on a loaded gate, its inputs drawn beforehand *)

InitStaged ==
    /\ \/ gate \in Gates /\ staged \in {<<inp>> : inp \in ScoreInputs}
       \/ gate = "question_depth" /\ staged \in {<<inp>> : inp \in TextInputs}
    /\ model = "loaded"
    /\ init_error = None
    /\ request = RawMalformed
    /\ response = [gate_decision |-> None]
    /\ run_raised = FALSE
    /\ predicted = <<>>
    /\ previous = <<>>
    /\ deploy = DeployIdle

\* the call before this one, as its caller saw it
LastCall ==
    IF response.gate_decision = None THEN <<>>
    ELSE <<[request |-> request, predicted |-> predicted, response |-> response]>>

ServeStaged ==
    /\ staged # <<>>
    /\ run(Head(staged).raw, Head(staged).outcome, Head(staged).jit)
    /\ staged' = Tail(staged)
    /\ previous' = LastCall

NextStaged == ServeStaged

SpecStaged == InitStaged /\ [][NextStaged]_vars

----------------------------------------------------------------------------
(* Two calls of run() in a row on a loaded gate, with the same request *)

InitRepeat ==
    /\ gate \in Gates
    /\ staged \in RepeatInputs
    /\ model = "loaded"
    /\ init_error = None
    /\ request = RawMalformed
    /\ response = [gate_decision |-> None]
    /\ run_raised = FALSE
    /\ predicted = <<>>
    /\ previous = <<>>
    /\ deploy = DeployIdle

SpecRepeat == InitRepeat /\ [][NextStaged]_vars

----------------------------------------------------------------------------
(* deploy_models.py: main() from the connected client on.  Its steps are the
   calls it makes to the platform and to the file system; each of them can
   raise, which ends main(). *)

models_info ==
    << <<"decision-gravity-classifier", "decision_gravity_model.joblib">>,
       <<"question-depth-classifier", "question_depth_model.joblib">>,
       <<"consequence-depth-classifier", "consequence_depth_model.joblib">> >>

ModelFiles == {models_info[i][2] : i \in 1..Len(models_info)}

Versions == 1..MaxVersion

\* a call to the platform or the file system, and whether it returned
Call(op, name, ok) == [op |-> op, name |-> name, ok |-> ok]

\* registered_models[model_name] = info
DictSet(dict, name, info) ==
    IF \E i \in 1..Len(dict) : dict[i].name = name
    THEN [i \in 1..Len(dict) |->
             IF dict[i].name = name THEN [name |-> name, info |-> info]
             ELSE dict[i]]
    ELSE Append(dict, [name |-> name, info |-> info])

\* env = create_environment(ml_client, "fcs-classifier-env")
MainCreateEnvironment ==
    /\ deploy.pc = "start"
    /\ \E ok \in BOOLEAN, version \in Versions :
          deploy' =
            IF ok
            THEN [deploy EXCEPT
                    !.pc = "loop",
                    !.env = <<[name |-> "fcs-classifier-env", version |-> version]>>,
                    !.calls = Append(@, Call("create_environment",
                                             "fcs-classifier-env", TRUE))]
            ELSE [deploy EXCEPT
                    !.pc = "failed",
                    !.calls = Append(@, Call("create_environment",
                                             "fcs-classifier-env", FALSE))]
    /\ UNCHANGED <<gate, model, init_error, request, response, run_raised,
                   predicted, staged, previous>>

\* MainVisitModel with `break` in place of `continue`
MainVisitModelBreak ==
    /\ deploy.pc = "loop"
    /\ deploy.next <= Len(models_info)
    /\ LET model_name == models_info[deploy.next][1]
           model_file == models_info[deploy.next][2]
       IN  IF model_file \notin deploy.exists
           THEN deploy' = [deploy EXCEPT
                             !.next = Len(models_info) + 1,
                             !.visited = Append(@, model_name)]
           ELSE \E ok \in BOOLEAN, version \in Versions :
                  deploy' =
                    IF ok
                    THEN [deploy EXCEPT
                            !.next = @ + 1,
                            !.visited = Append(@, model_name),
                            !.calls = Append(@, Call("register_model", model_name, TRUE)),
                            !.registered_models =
                                DictSet(@, model_name,
                                        [name |-> model_name, version |-> version])]
                    ELSE [deploy EXCEPT
                            !.pc = "failed",
                            !.visited = Append(@, model_name),
                            !.calls = Append(@, Call("register_model", model_name, FALSE))]
    /\ UNCHANGED <<gate, model, init_error, request, response, run_raised,
                   predicted, staged, previous>>

\* one iteration of `for model_name, model_file in models_info`
MainVisitModel ==
    /\ deploy.pc = "loop"
    /\ deploy.next <= Len(models_info)
    /\ LET model_name == models_info[deploy.next][1]
           model_file == models_info[deploy.next][2]
       IN  IF model_file \notin deploy.exists
           THEN deploy' = [deploy EXCEPT
                             !.next = @ + 1,
                             !.visited = Append(@, model_name)]
           ELSE \E ok \in BOOLEAN, version \in Versions :
                  deploy' =
                    IF ok
                    THEN [deploy EXCEPT
                            !.next = @ + 1,
                            !.visited = Append(@, model_name),
                            !.calls = Append(@, Call("register_model", model_name, TRUE)),
                            !.registered_models =
                                DictSet(@, model_name,
                                        [name |-> model_name, version |-> version])]
                    ELSE [deploy EXCEPT
                            !.pc = "failed",
                            !.visited = Append(@, model_name),
                            !.calls = Append(@, Call("register_model", model_name, FALSE))]
    /\ UNCHANGED <<gate, model, init_error, request, response, run_raised,
                   predicted, staged, previous>>

\* with open(config_path, 'w') as f: json.dump(config, f, indent=2)
MainWriteConfig ==
    /\ deploy.pc = "loop"
    /\ deploy.next = Len(models_info) + 1
    /\ \E ok \in BOOLEAN :
          deploy' =
            IF ok
            THEN [deploy EXCEPT
                    !.pc = "written",
                    !.calls = Append(@, Call("open", "azure_models_config.json", TRUE)),
                    !.config = <<[environment |-> deploy.env[1],
                                  models |-> deploy.registered_models]>>]
            ELSE [deploy EXCEPT
                    !.pc = "failed",
                    !.calls = Append(@, Call("open", "azure_models_config.json", FALSE))]
    /\ UNCHANGED <<gate, model, init_error, request, response, run_raised,
                   predicted, staged, previous>>

\* main() starts with any of the three artifacts present in --models-dir
InitDeploy ==
    /\ gate = "decision_gravity"
    /\ model = "unset"
    /\ init_error = None
    /\ request = RawMalformed
    /\ response = [gate_decision |-> None]
    /\ run_raised = FALSE
    /\ predicted = <<>>
    /\ staged = <<>>
    /\ previous = <<>>
    /\ \E exists \in SUBSET ModelFiles :
          deploy = [DeployIdle EXCEPT !.pc = "start", !.exists = exists]

NextDeploy == MainCreateEnvironment \/ MainVisitModel \/ MainWriteConfig

SpecDeploy == InitDeploy /\ [][NextDeploy]_vars

----------------------------------------------------------------------------
(* Properties *)

Abs(x) == IF x < 0 THEN -x ELSE x

\* a response field, None when the response has no such key
Get(resp, key) == IF key \in DOMAIN resp THEN resp[key] ELSE None

\* the last run() got probabilities from the classifier
Scored == predicted # <<>> /\ ~predicted[1].throws

\* the positive-class probability of the last scored request
P == predicted[1].p

\* the last request had no usable text: no "text" key, or the empty string
NoText ==
    /\ request.kind = "object"
    /\ \/ ~request.has_text
       \/ request.ttype = "str" /\ request.chars = <<>>

FailLabelOf ==
    [decision_gravity |-> "REFUSE", question_depth |-> "REJECT",
     consequence_depth |-> "TERMINATE"]

PassLabelOf ==
    [decision_gravity |-> "PROCEED", question_depth |-> "PROCEED",
     consequence_depth |-> "APPROVE"]

\* C1: run() never raises, and malformed JSON, JSON that is not an object, a
\* missing or empty text, and an exception of the classifier all give an
\* error response with the gate's fail label.
C1_RunNeverRaises ==
    /\ ~run_raised
    /\ ( /\ response.gate_decision # None
         /\ \/ request.kind \in {"malformed", "non_object"}
            \/ NoText
            \/ predicted # <<>> /\ predicted[1].throws )
       => /\ "error" \in DOMAIN response
          /\ response.gate_decision = FailLabelOf[gate]

\* C1 witness: the classifier raised on a text and the caller got the fail label
W_C1 ==
    /\ predicted # <<>> /\ predicted[1].throws
    /\ request.ttype = "str" /\ request.chars # <<>>
    /\ ~run_raised
    /\ response.gate_decision = FailLabelOf[gate]

\* C2: a scored request passes exactly when p >= threshold (0.5, or 0.6 for
\* question-depth), whatever its text.
C2_DecisionByThreshold ==
    Scored =>
        LET threshold == IF gate = "question_depth" THEN 600 * Sub ELSE 500 * Sub
        IN  response.gate_decision =
                IF P >= threshold THEN PassLabelOf[gate] ELSE FailLabelOf[gate]

\* C2 witness: p exactly at the question-depth threshold passes
W_C2 ==
    /\ Scored /\ gate = "question_depth" /\ P = 600 * Sub
    /\ response.gate_decision = "PROCEED"

\* C3: a request object without text gets exactly error "No text provided"
\* and the fail label, plus guidance from the question-depth gate only, and
\* the classifier is not called.
C3_NoTextResponse ==
    NoText =>
        /\ predicted = <<>>
        /\ DOMAIN response =
               {"error", "gate_decision"} \cup
               (IF gate = "question_depth" THEN {"guidance"} ELSE {})
        /\ response.error = "No text provided"
        /\ response.gate_decision = FailLabelOf[gate]

\* C3 witness: the question-depth gate answered a request without "text"
W_C3 ==
    /\ gate = "question_depth" /\ request.kind = "object" /\ ~request.has_text
    /\ Get(response, "error") = "No text provided"
    /\ Get(response, "guidance") = "Please provide a question."

\* C4: the reported confidence is max(p, 1 - p) to the nearest thousandth,
\* and lies in [0.5, 1.0].
C4_ConfidenceIsMax ==
    Scored =>
        /\ 2 * Abs(response.confidence * Sub - (IF 2 * P >= PMax THEN P ELSE PMax - P)) <= Sub
        /\ response.confidence >= 500
        /\ response.confidence <= 1000

\* C4 witness: a score below 0.5 whose confidence is that of the negative class
W_C4 ==
    /\ Scored /\ 2 * P < PMax - Sub
    /\ response.confidence > 500

\* the reported dimension i of the last scored response against the reported
\* primary score times the dimension's weight, in units of 1/100000
DimensionGap(i) ==
    100 * response.dimensions[Dimensions(gate)[i][1]]
        - response[ScoreField(gate)] * Dimensions(gate)[i][2]

\* C5 as stated: every reported dimension is within 0.05 of the reported
\* primary score times the dimension's weight.
C5_Original ==
    Scored => \A i \in 1..3 : Abs(DimensionGap(i)) <= 5000

\* C5 amended: every reported dimension is within 0.051 of the reported
\* primary score times the dimension's weight (the jitter's 0.05 plus the
\* rounding of the dimension and of the score).
C5_DimensionsNearWeightedScore ==
    Scored => \A i \in 1..3 : Abs(DimensionGap(i)) <= 5100

\* C5 witness: a reported dimension more than 0.05 from the weighted score
W_C5 == Scored /\ \E i \in 1..3 : Abs(DimensionGap(i)) > 5000

\* the question-depth gate scored and rejected the last request
Rejected == Scored /\ gate = "question_depth" /\ response.gate_decision = "REJECT"

\* the lower-cased text of the last request contains one of the markers
Marked(markers) == ContainsAny(Lower(request.chars), markers)

\* C6: the rejection rules apply in priority order, first match wins:
\* advice_seeking, predictive, leading, comparison, then the short-question
\* rule or generic.
C6_RejectionPriority ==
    Rejected =>
        LET rejection_type == response.rejection_type
        IN  IF Marked(AdviceMarkers) THEN rejection_type = "advice_seeking"
            ELSE IF Marked(PredictiveMarkers) THEN rejection_type = "predictive"
            ELSE IF Marked(LeadingMarkers) THEN rejection_type = "leading"
            ELSE IF Marked(ComparisonMarkers) THEN rejection_type = "comparison"
            ELSE rejection_type \in {"binary", "generic"}

\* C6 witness: "Should I do this right?", short and with a leading marker, is
\* advice_seeking
W_C6 ==
    /\ Rejected
    /\ request.chars =
         <<"S", "h", "o", "u", "l", "d", " ", "I", " ", "d", "o", " ", "t", "h", "i", "s",
           " ", "r", "i", "g", "h", "t", "?">>
    /\ Marked(LeadingMarkers) /\ WordCount(request.chars) < 6
    /\ response.rejection_type = "advice_seeking"

\* C7: a scored response carries rejection_type and guidance exactly when the
\* question-depth gate rejected; otherwise both are null.
C7_RejectionInfoOnlyOnReject ==
    Scored =>
        IF gate = "question_depth" /\ response.gate_decision = FailLabelOf[gate]
        THEN /\ Get(response, "rejection_type") # None
             /\ Get(response, "guidance") # None
        ELSE /\ Get(response, "rejection_type") = None
             /\ Get(response, "guidance") = None

\* C7 witness: the question-depth gate let a question through and gave neither
W_C7 ==
    /\ Scored /\ gate = "question_depth" /\ response.gate_decision = "PROCEED"
    /\ response.rejection_type = None /\ response.guidance = None

\* C8: on a rejection the rejection_type is one of the six codes of
\* REJECTION_GUIDANCE and the guidance is that code's string.
C8_GuidanceMatchesType ==
    Rejected =>
        /\ response.rejection_type \in
             {"generic", "advice_seeking", "predictive", "leading", "binary",
              "comparison"}
        /\ response.guidance = REJECTION_GUIDANCE[response.rejection_type]

\* C8 witness: "Will I be happy?" below 0.6 is rejected as predictive with the
\* predictive guidance
W_C8 ==
    /\ Rejected
    /\ request.chars =
         <<"W", "i", "l", "l", " ", "I", " ", "b", "e", " ", "h", "a", "p", "p", "y", "?">>
    /\ response.rejection_type = "predictive"
    /\ response.guidance =
         "This question asks for predictions. Ask about one possible future experience."

\* C9: a run() reaches the classifier only after a successful init(), and no
\* response reports the failure to load the artifact: init() raises it.
C9_LoadFailureOnlyFromInit ==
    /\ predicted # <<>> => model = "loaded"
    /\ Get(response, "error") # "ArtifactLoadError"

\* C9 witness: init() failed, and the run() that followed neither scored nor
\* reported the load failure
W_C9 ==
    /\ init_error = "ArtifactLoadError" /\ model = "unset"
    /\ request.kind = "object" /\ request.chars # <<>>
    /\ predicted = <<>>
    /\ response.gate_decision = FailLabelOf[gate]

\* C10: a text without any marker is binary when it has fewer than 6
\* whitespace-separated words and generic when it has 6 or more.
C10_ShortQuestionRule ==
    ( /\ Rejected
      /\ ~Marked(AdviceMarkers) /\ ~Marked(PredictiveMarkers)
      /\ ~Marked(LeadingMarkers) /\ ~Marked(ComparisonMarkers) )
    => response.rejection_type =
           IF WordCount(request.chars) < 6 THEN "binary" ELSE "generic"

\* C10 witness: a text of exactly 6 words without markers is generic
W_C10 ==
    /\ Rejected
    /\ WordCount(request.chars) = 6
    /\ response.rejection_type = "generic"

\* the call before the last one had the same request and got the same answer
\* from the classifier
Repeated ==
    /\ previous # <<>>
    /\ previous[1].request = request
    /\ previous[1].predicted = predicted

\* C11: two calls with the same request on the same model agree on every
\* field of the response but `dimensions`, which each call draws anew.
C11_RepeatDiffersOnlyInDimensions ==
    Repeated =>
        /\ DOMAIN previous[1].response = DOMAIN response
        /\ \A key \in DOMAIN response \ {"dimensions"} :
               previous[1].response[key] = response[key]

\* C11 witness: the second of two equal calls reports other dimensions and is
\* otherwise the same
W_C11 ==
    /\ Repeated /\ Scored
    /\ previous[1].response.dimensions # response.dimensions
    /\ previous[1].response.gate_decision = response.gate_decision
    /\ previous[1].response.confidence = response.confidence

\* a step in which run() returned something new to its caller
RunStep ==
    <<request, response, run_raised, predicted>>'
        # <<request, response, run_raised, predicted>>

\* the last response is one that a first call on this gate and model, with
\* this request and this answer of the classifier, can return
FreshResult ==
    \E jit \in RunJ \X RunJ \X RunJ :
        RunResult(gate, model, request,
                  IF predicted = <<>> THEN Throws ELSE predicted[1], jit).resp
            = response

Reported == response[ScoreField(gate)]
ThresholdOf == [decision_gravity |-> 500, question_depth |-> 600,
                consequence_depth |-> 500]

\* C13 as stated: the decision is the pass label exactly when the reported,
\* rounded score is >= the threshold.
C13_Original ==
    Scored =>
        (response.gate_decision = PassLabelOf[gate]
            <=> Reported >= ThresholdOf[gate])

\* C13 amended: a pass reports a score >= the threshold and a fail reports a
\* score <= the threshold; a fail can report exactly the threshold.
C13_DecisionNearReportedScore ==
    Scored =>
        /\ response.gate_decision = PassLabelOf[gate]
               => Reported >= ThresholdOf[gate]
        /\ response.gate_decision = FailLabelOf[gate]
               => Reported <= ThresholdOf[gate]
        /\ response.gate_decision \in {PassLabelOf[gate], FailLabelOf[gate]}

\* C13 witness: a probability just below 0.6 is rejected and reported as 0.6
W_C13 ==
    /\ Scored /\ gate = "question_depth"
    /\ 2 * (600 * Sub - P) < Sub /\ P < 600 * Sub
    /\ response.gate_decision = "REJECT"
    /\ Reported = 600

\* C14: every reported dimension is a score in [0, 1].
C14_DimensionsInUnitInterval ==
    Scored =>
        \A name \in DOMAIN response.dimensions :
            /\ response.dimensions[name] >= 0
            /\ response.dimensions[name] <= 1000

\* C15: every response has gate_decision and is either an error response
\* (error, no score, no dimensions, no confidence, the fail label) or a scored
\* response (score, three dimensions, confidence, no error).
C15_TwoResponseShapes ==
    response.gate_decision # None =>
        LET keys == DOMAIN response
            score_keys == {"gravity_score", "depth_score",
                           "consequence_depth_score", "dimensions", "confidence"}
        IN  /\ "gate_decision" \in keys
            /\ response.gate_decision \in {PassLabelOf[gate], FailLabelOf[gate]}
            /\ IF "error" \in keys
               THEN /\ keys \cap score_keys = {}
                    /\ response.gate_decision = FailLabelOf[gate]
               ELSE /\ keys \cap score_keys =
                         {ScoreField(gate), "dimensions", "confidence"}
                    /\ Cardinality(DOMAIN response.dimensions) = 3

\* C15 witness: a response with the pass label, which is a scored response
W_C15 ==
    /\ response.gate_decision = PassLabelOf[gate]
    /\ "error" \notin DOMAIN response
    /\ Cardinality(DOMAIN response.dimensions) = 3
    /\ "confidence" \in DOMAIN response

\* the names of the models the deployment asked the registry to register
RegisterCalls ==
    SelectSeq(deploy.calls, LAMBDA call : call.op = "register_model")

\* C16: main() creates the environment before it registers anything, visits
\* the models in the order decision-gravity, question-depth,
\* consequence-depth, skips a model without artifact and goes on, and the
\* configuration it writes lists exactly the models whose artifact existed,
\* each registered once.
C16_DeployRegistersExistingModels ==
    LET order == <<"decision-gravity-classifier", "question-depth-classifier",
                   "consequence-depth-classifier">>
        file == [n \in {order[i] : i \in 1..3} |->
                    CASE n = "decision-gravity-classifier" -> "decision_gravity_model.joblib"
                      [] n = "question-depth-classifier" -> "question_depth_model.joblib"
                      [] n = "consequence-depth-classifier" -> "consequence_depth_model.joblib"]
    IN  /\ RegisterCalls # <<>> =>
              /\ deploy.calls[1] = Call("create_environment", "fcs-classifier-env", TRUE)
              /\ deploy.env # <<>>
        /\ Len(deploy.visited) <= 3
        /\ deploy.visited = SubSeq(order, 1, Len(deploy.visited))
        /\ \A i \in 1..Len(RegisterCalls) : file[RegisterCalls[i].name] \in deploy.exists
        /\ deploy.pc = "failed" => ~deploy.calls[Len(deploy.calls)].ok
        /\ deploy.pc = "written" =>
              /\ deploy.visited = order
              /\ {file[deploy.config[1].models[i].name] :
                     i \in 1..Len(deploy.config[1].models)} = deploy.exists
              /\ Len(deploy.config[1].models) = Cardinality(deploy.exists)
              /\ Len(RegisterCalls) = Cardinality(deploy.exists)

\* C16 witness: the first and the last artifact were missing and the
\* configuration lists the question-depth model alone
W_C16 ==
    /\ deploy.pc = "written"
    /\ deploy.exists = {"question_depth_model.joblib"}
    /\ Len(deploy.config[1].models) = 1
    /\ deploy.config[1].models[1].name = "question-depth-classifier"

====
